---- MODULE Spec2Model ----
(***************************************************************************)
(* A model of lnx's stop-word corpus loader (engine/src/stop_words.rs) and *)
(* of the document value layer (lnx-document/src/value.rs): DateTime,      *)
(* Value::as_field_type and DynamicDocument.                               *)
(*                                                                         *)
(* Spec          the stop-word corpus shared by concurrent threads         *)
(* SpecDateTime  the DateTime constructors on inputs around their limits   *)
(* SpecValue     as_field_type on pairs of Values                          *)
(* SpecDocument  a DynamicDocument built, appended to, read and converted  *)
(***************************************************************************)
EXTENDS Integers, Sequences, FiniteSets, TLC

VARIABLES
    payload,      \* stop_words.rs:9   the embedded bytes (include_bytes!)
    buffer,       \* stop_words.rs:11  the bytes written into the decoder
    STOP_WORDS,   \* stop_words.rs:6   the process-wide OnceCell
    heap,         \* the Vec<String> buffers: heap[0] is owned by STOP_WORDS,
                  \* heap[t] by the list last returned to thread t
    pc,           \* where each thread stands inside init_stop_words
    loc,          \* the local bindings of each running init_stop_words
    result,       \* the value last returned to each thread
    writes,       \* how many STOP_WORDS.set calls stored their value
    full,         \* every piece of the split iterator of the call that stored
    dtIn,         \* value.rs:306-322  the i64 handed to a DateTime constructor
    dtOp,         \* which constructor ran on it
    dtOut,        \* the Option<DateTime> it returned
    dtRead,       \* value.rs:340  what as_micros() returned for dtOut
    valA,         \* value.rs:50   two Values ...
    valB,
    tagA,         \* value.rs:67   ... and what as_field_type() returned for each
    tagB,
    doc,          \* value.rs:21   the pairs of a DynamicDocument
    given,        \* the pairs handed to the document so far, in order
    phase,        \* "new", "built" or "converted"
    seen,         \* what iterating over the document yielded
    obj           \* value.rs:219  the Value the document was converted into

swVars == <<payload, buffer, STOP_WORDS, heap, pc, loc, result, writes, full>>
dtVars == <<dtIn, dtOp, dtOut, dtRead>>
valVars == <<valA, valB, tagA, tagB>>
docVars == <<doc, given, phase, seen, obj>>
vars == <<swVars, dtVars, valVars, docVars>>

-----------------------------------------------------------------------------
(* Bounds *)

NumThreads == 2
MaxCopyLen == 2

Threads == 1..NumThreads
CellAddr == 0
Addrs == {CellAddr} \cup Threads

-----------------------------------------------------------------------------
(* Bytes and text. A String is its UTF-8 bytes; a Vec<String> is a         *)
(* sequence of such byte sequences.                                        *)

NL == 10
GzId1 == 31
GzId2 == 139

\* The gzip container of `body`: the two identification bytes, then the
\* member carried as a stored block.
Gz(body) == <<GzId1, GzId2>> \o body

\* "the\na\nan\nof"
TextThe == <<116, 104, 101, NL, 97, NL, 97, 110, NL, 111, 102>>
\* "a\n"
TextTrailing == <<97, NL>>

Payloads == { Gz(TextThe), Gz(TextTrailing), Gz(<<97, 255>>), <<0, 0, 97>> }

\* GzDecoder::new(..); write_all(..)?; finish()?  -- an io error unless the
\* input is a gzip member, otherwise the bytes it carries.
Gunzip(bytes) ==
    IF Len(bytes) >= 2 /\ bytes[1] = GzId1 /\ bytes[2] = GzId2
    THEN [ok |-> TRUE, data |-> SubSeq(bytes, 3, Len(bytes))]
    ELSE [ok |-> FALSE, data |-> <<>>]

\* Whether the bytes from position i on are well-formed UTF-8 (one-byte and
\* two-byte sequences).
RECURSIVE ValidUtf8(_, _)
ValidUtf8(bytes, i) ==
    IF i > Len(bytes) THEN TRUE
    ELSE IF bytes[i] < 128 THEN ValidUtf8(bytes, i + 1)
    ELSE IF /\ bytes[i] >= 194 /\ bytes[i] <= 223
            /\ i + 1 <= Len(bytes)
            /\ bytes[i + 1] >= 128 /\ bytes[i + 1] <= 191
         THEN ValidUtf8(bytes, i + 2)
    ELSE FALSE

\* The variant that decodes leniently, leaving out what is not valid.
FromUtf8Lossy(bytes) ==
    [ok |-> TRUE, text |-> SelectSeq(bytes, LAMBDA b : b < 128)]

\* String::from_utf8(data).map_err(..)
FromUtf8(bytes) ==
    IF ValidUtf8(bytes, 1)
    THEN [ok |-> TRUE, text |-> bytes]
    ELSE [ok |-> FALSE, text |-> <<>>]

\* split(sep): the pieces between the separators, in order; a sequence
\* without separator (the empty one too) is one piece.
RECURSIVE SplitFrom(_, _, _, _)
SplitFrom(s, sep, i, cur) ==
    IF i > Len(s) THEN <<cur>>
    ELSE IF s[i] = sep THEN <<cur>> \o SplitFrom(s, sep, i + 1, <<>>)
    ELSE SplitFrom(s, sep, i + 1, Append(cur, s[i]))

Split(s, sep) == SplitFrom(s, sep, 1, <<>>)

-----------------------------------------------------------------------------
(* Return values *)

NoResult == [kind |-> "none"]
OkUnit == [kind |-> "ok"]
ErrIo == [kind |-> "err", msg |-> "io"]
ErrParse == [kind |-> "err", msg |-> "failed to parse stop words from linked data."]
ErrNotInitialised ==
    [kind |-> "err", msg |-> "stop words was not initialised at time of calling."]
OkWords(ref) == [kind |-> "words", ref |-> ref]

Uninitialized == [init |-> FALSE]
Initialized(ref) == [init |-> TRUE, ref |-> ref]

NoLocals == [data |-> <<>>, text |-> <<>>, words |-> <<>>, pieces |-> <<>>, i |-> 1]

\* The list a thread holds is dropped when its next call returns.
Drop(h, t) == [h EXCEPT ![t] = <<>>]

\* The words of the shared corpus, and of the list thread t holds.
Corpus == heap[CellAddr]
Held(t) == heap[result[t].ref]

-----------------------------------------------------------------------------
(* OnceCell *)

\* The variant of set that stores over an earlier value.
OnceCellSetOverwrite(cell, h, value) ==
    [cell |-> Initialized(CellAddr),
     heap |-> [h EXCEPT ![CellAddr] = value],
     stored |-> TRUE]

\* STOP_WORDS.set(words): stores into an empty cell, and hands the value
\* back (here: drops it) when the cell is full.
OnceCellSet(cell, h, value) ==
    IF cell.init
    THEN [cell |-> cell, heap |-> h, stored |-> FALSE]
    ELSE [cell |-> Initialized(CellAddr),
          heap |-> [h EXCEPT ![CellAddr] = value],
          stored |-> TRUE]

-----------------------------------------------------------------------------
(* get_stop_words *)

\* The variant that hands out the shared list itself.
GetStopWordsShared(cell, h, t) ==
    IF cell.init
    THEN [ret |-> OkWords(cell.ref), heap |-> Drop(h, t)]
    ELSE [ret |-> ErrNotInitialised, heap |-> Drop(h, t)]

\* The variant that answers an empty list while the cell is empty.
GetStopWordsOrDefault(cell, h, t) ==
    IF cell.init
    THEN [ret |-> OkWords(t), heap |-> [h EXCEPT ![t] = h[cell.ref]]]
    ELSE [ret |-> OkWords(t), heap |-> Drop(h, t)]

\* STOP_WORDS.get(): Some(words) => Ok(words.clone()), None => Err(..)
GetStopWords(cell, h, t) ==
    IF cell.init
    THEN [ret |-> OkWords(t), heap |-> [h EXCEPT ![t] = h[cell.ref]]]
    ELSE [ret |-> ErrNotInitialised, heap |-> Drop(h, t)]

Get(t) ==
    /\ pc[t] = "idle"
    /\ LET r == GetStopWords(STOP_WORDS, heap, t) IN
        /\ result' = [result EXCEPT ![t] = r.ret]
        /\ heap' = r.heap
    /\ UNCHANGED <<payload, buffer, STOP_WORDS, pc, loc, writes, full>>
    /\ UNCHANGED <<dtVars, valVars, docVars>>

\* The caller changes the list it was given: push one word, or clear.
MutWord == <<120>>

Mutate(t) ==
    /\ pc[t] = "idle"
    /\ result[t].kind = "words"
    /\ \/ /\ Len(Held(t)) < MaxCopyLen
          /\ heap' = [heap EXCEPT ![result[t].ref] = Append(@, MutWord)]
       \/ /\ Held(t) # <<>>
          /\ heap' = [heap EXCEPT ![result[t].ref] = <<>>]
    /\ UNCHANGED <<payload, buffer, STOP_WORDS, pc, loc, result, writes, full>>
    /\ UNCHANGED <<dtVars, valVars, docVars>>

-----------------------------------------------------------------------------
(* init_stop_words, one action per statement *)

\* lines 9-12: the payload is bound to `data`, `data` is bound again to the
\* decoder, `buffer` is written into it and the decoder is finished.
InitDecompress(t) ==
    /\ pc[t] = "idle"
    /\ LET r == Gunzip(buffer) IN
        IF r.ok
        THEN /\ pc' = [pc EXCEPT ![t] = "parse"]
             /\ loc' = [loc EXCEPT ![t] = [NoLocals EXCEPT !.data = r.data]]
             /\ UNCHANGED <<result, heap>>
        ELSE /\ result' = [result EXCEPT ![t] = ErrIo]
             /\ heap' = Drop(heap, t)
             /\ UNCHANGED <<pc, loc>>
    /\ UNCHANGED <<payload, buffer, STOP_WORDS, writes, full>>
    /\ UNCHANGED <<dtVars, valVars, docVars>>

\* lines 14-15: `words` is the decoded text, or the call returns the error.
InitParse(t) ==
    /\ pc[t] = "parse"
    /\ LET r == FromUtf8(loc[t].data) IN
        IF r.ok
        THEN /\ pc' = [pc EXCEPT ![t] = "split"]
             /\ loc' = [loc EXCEPT ![t].text = r.text]
             /\ UNCHANGED <<result, heap>>
        ELSE /\ result' = [result EXCEPT ![t] = ErrParse]
             /\ heap' = Drop(heap, t)
             /\ pc' = [pc EXCEPT ![t] = "idle"]
             /\ loc' = [loc EXCEPT ![t] = NoLocals]
    /\ UNCHANGED <<payload, buffer, STOP_WORDS, writes, full>>
    /\ UNCHANGED <<dtVars, valVars, docVars>>

\* lines 17-18: `words` is bound again, to an empty vector, and the loop
\* splits `words`: the name now means the vector of line 17, not the text
\* of line 14.
InitSplit(t) ==
    /\ pc[t] = "split"
    /\ LET words == <<>> IN
        loc' = [loc EXCEPT ![t].words = words,
                           ![t].pieces = Split(words, NL),
                           ![t].i = 1]
    /\ pc' = [pc EXCEPT ![t] = "loop"]
    /\ UNCHANGED <<payload, buffer, STOP_WORDS, heap, result, writes, full>>
    /\ UNCHANGED <<dtVars, valVars, docVars>>

\* The variant of the loop that stops one piece early.
LoopDoneEarly(l) == l.i >= Len(l.pieces)

\* line 18: the for loop ends when the iterator has no piece left.
LoopDone(l) == l.i > Len(l.pieces)

\* line 19: words.push(word.to_string())
InitPush(t) ==
    /\ pc[t] = "loop"
    /\ ~LoopDone(loc[t])
    /\ loc' = [loc EXCEPT ![t].words = Append(@, loc[t].pieces[loc[t].i]),
                          ![t].i = @ + 1]
    /\ UNCHANGED <<payload, buffer, STOP_WORDS, heap, pc, result, writes, full>>
    /\ UNCHANGED <<dtVars, valVars, docVars>>

\* lines 22-24: let _ = STOP_WORDS.set(words); Ok(())
InitSet(t) ==
    /\ pc[t] = "loop"
    /\ LoopDone(loc[t])
    /\ LET r == OnceCellSet(STOP_WORDS, heap, loc[t].words) IN
        /\ STOP_WORDS' = r.cell
        /\ heap' = Drop(r.heap, t)
        /\ writes' = IF r.stored THEN writes + 1 ELSE writes
        /\ full' = IF r.stored THEN loc[t].pieces ELSE full
    /\ result' = [result EXCEPT ![t] = OkUnit]
    /\ pc' = [pc EXCEPT ![t] = "idle"]
    /\ loc' = [loc EXCEPT ![t] = NoLocals]
    /\ UNCHANGED <<payload, buffer>>
    /\ UNCHANGED <<dtVars, valVars, docVars>>

-----------------------------------------------------------------------------

-----------------------------------------------------------------------------
(* DateTime (value.rs:288-349). TLC's integers are 32 bits wide, so       *)
(* the i64 of the source is modelled as a signed integer of Bits bits, wide *)
(* enough for both scale factors to fit and narrow enough for every         *)
(* product to be computed exactly.                                          *)

Bits == 21
DtRadius == 3

IMax == 2^(Bits - 1) - 1
IMin == -(2^(Bits - 1))

NoneV == [some |-> FALSE]
Some(x) == [some |-> TRUE, val |-> x]

\* The variant of checked_mul that wraps around, as wrapping_mul does.
WrappingMul(a, b) == Some(((a * b - IMin) % 2^Bits) + IMin)

\* i64::checked_mul: the product, or None when it is out of range.
CheckedMul(a, b) ==
    LET p == a * b IN
    IF p >= IMin /\ p <= IMax THEN Some(p) ELSE NoneV

MillisPerSec == 1000
MicrosPerMilli == 1000

\* The variant of from_micros that scales its argument, as from_millis does.
FromMicrosScaled(v) ==
    LET m == CheckedMul(v, MicrosPerMilli) IN
    IF m.some THEN Some([micros |-> m.val]) ELSE NoneV

\* DateTime::from_micros
FromMicros(v) == Some([micros |-> v])

\* DateTime::from_millis: Self::from_micros(i64::checked_mul(v, 1000)?)
FromMillis(v) ==
    LET m == CheckedMul(v, MicrosPerMilli) IN
    IF m.some THEN FromMicros(m.val) ELSE NoneV

\* The variant of from_secs that scales once only.
FromSecsScaledOnce(v) ==
    LET m == CheckedMul(v, MillisPerSec) IN
    IF m.some THEN FromMicros(m.val) ELSE NoneV

\* DateTime::from_secs: Self::from_millis(i64::checked_mul(v, 1000)?)
FromSecs(v) ==
    LET m == CheckedMul(v, MillisPerSec) IN
    IF m.some THEN FromMillis(m.val) ELSE NoneV

\* DateTime::as_micros
AsMicros(d) == d.micros

\* The inputs: every integer within DtRadius of zero, of the two ends of the
\* range, and of the largest magnitudes that one and two scalings still hold.
Near(c) == {v \in (c - DtRadius)..(c + DtRadius) : v >= IMin /\ v <= IMax}

DtInputs ==
    UNION { Near(c) : c \in {0, IMin, IMax,
                             IMax \div MicrosPerMilli,
                             -(IMax \div MicrosPerMilli),
                             IMax \div (MillisPerSec * MicrosPerMilli),
                             -(IMax \div (MillisPerSec * MicrosPerMilli))} }

DtIdle ==
    /\ dtIn = 0
    /\ dtOp = "none"
    /\ dtOut = NoneV
    /\ dtRead = NoneV

DtFromSecs ==
    /\ dtOp = "none"
    /\ dtOp' = "secs"
    /\ dtOut' = FromSecs(dtIn)
    /\ UNCHANGED <<dtIn, dtRead, swVars, valVars, docVars>>

DtFromMillis ==
    /\ dtOp = "none"
    /\ dtOp' = "millis"
    /\ dtOut' = FromMillis(dtIn)
    /\ UNCHANGED <<dtIn, dtRead, swVars, valVars, docVars>>

DtFromMicros ==
    /\ dtOp = "none"
    /\ dtOp' = "micros"
    /\ dtOut' = FromMicros(dtIn)
    /\ UNCHANGED <<dtIn, dtRead, swVars, valVars, docVars>>

DtAsMicros ==
    /\ dtOut.some
    /\ ~dtRead.some
    /\ dtRead' = Some(AsMicros(dtOut.val))
    /\ UNCHANGED <<dtIn, dtOp, dtOut, swVars, valVars, docVars>>

-----------------------------------------------------------------------------
(* Value (value.rs:49-223): a variant and the data it holds. *)

Null == [variant |-> "Null", data |-> <<>>]

\* The From impls (value.rs:123-223).
FromStr(text) == [variant |-> "Str", data |-> text]
FromBytes(bytes) == [variant |-> "Bytes", data |-> bytes]
FromU64(n) == [variant |-> "U64", data |-> n]
FromI64(n) == [variant |-> "I64", data |-> n]
FromF64(x) == [variant |-> "F64", data |-> x]
FromBool(b) == [variant |-> "Bool", data |-> b]
\* Ipv4Addr::to_ipv6_mapped: ::ffff:a.b.c.d, as eight 16-bit segments
FromIpv4(hi, lo) == [variant |-> "IpAddr", data |-> <<0, 0, 0, 0, 0, 65535, hi, lo>>]
FromIpv6(segments) == [variant |-> "IpAddr", data |-> segments]
FromDateTime(d) == [variant |-> "DateTime", data |-> d]
FromFacet(path) == [variant |-> "Facet", data |-> path]
FromVec(values) == [variant |-> "Array", data |-> values]
FromKeyValues(pairs) == [variant |-> "Object", data |-> pairs]

FieldTypes ==
    {"Null", "String", "U64", "I64", "F64", "Bool", "Facet", "DateTime",
     "IpAddr", "Bytes", "Array", "Object"}

\* The variant of as_field_type whose I64 arm repeats the U64 tag.
AsFieldTypeI64AsU64(v) ==
    CASE v.variant = "Null" -> "Null"
      [] v.variant = "Str" -> "String"
      [] v.variant = "U64" -> "U64"
      [] v.variant = "I64" -> "U64"
      [] v.variant = "F64" -> "F64"
      [] v.variant = "Bool" -> "Bool"
      [] v.variant = "Facet" -> "Facet"
      [] v.variant = "DateTime" -> "DateTime"
      [] v.variant = "IpAddr" -> "IpAddr"
      [] v.variant = "Bytes" -> "Bytes"
      [] v.variant = "Array" -> "Array"
      [] v.variant = "Object" -> "Object"

\* Value::as_field_type
AsFieldType(v) ==
    CASE v.variant = "Null" -> "Null"
      [] v.variant = "Str" -> "String"
      [] v.variant = "U64" -> "U64"
      [] v.variant = "I64" -> "I64"
      [] v.variant = "F64" -> "F64"
      [] v.variant = "Bool" -> "Bool"
      [] v.variant = "Facet" -> "Facet"
      [] v.variant = "DateTime" -> "DateTime"
      [] v.variant = "IpAddr" -> "IpAddr"
      [] v.variant = "Bytes" -> "Bytes"
      [] v.variant = "Array" -> "Array"
      [] v.variant = "Object" -> "Object"

\* The Values the checks run on: of every variant, with the numbers up to
\* MaxNum and a few contents of every other kind.
MaxNum == 1

Values ==
    <<Null>>
    \o [i \in 1..(MaxNum + 1) |-> FromU64(i - 1)]
    \o [i \in 1..(2 * MaxNum + 1) |-> FromI64(i - 1 - MaxNum)]
    \o [i \in 1..(MaxNum + 1) |-> FromF64(i - 1)]
    \o <<FromBool(FALSE), FromBool(TRUE),
         FromStr(""), FromStr("a"),
         FromFacet("/a"), FromFacet("a"),
         FromDateTime(FromMicros(0).val), FromDateTime(FromMicros(1).val),
         FromIpv4(0, 1), FromIpv6(<<0, 0, 0, 0, 0, 0, 0, 1>>),
         FromBytes(<<>>), FromBytes(<<1>>),
         FromVec(<<>>), FromVec(<<FromU64(1), FromI64(1)>>),
         FromKeyValues(<<>>), FromKeyValues(<<<<"tag", FromStr("a")>>>>)>>

Unset == "unset"

ValIdle ==
    /\ valA = Null
    /\ valB = Null
    /\ tagA = Unset
    /\ tagB = Unset

ClassifyA ==
    /\ tagA = Unset
    /\ tagA' = AsFieldType(valA)
    /\ UNCHANGED <<valA, valB, tagB, swVars, dtVars, docVars>>

ClassifyB ==
    /\ tagB = Unset
    /\ tagB' = AsFieldType(valB)
    /\ UNCHANGED <<valA, valB, tagA, swVars, dtVars, docVars>>

-----------------------------------------------------------------------------
(* DynamicDocument (value.rs:16-41, 219-223): a vector of (key, Value). *)

MaxPairs == 3

Keys == {"tag", "id"}
Pairs == {<<k, FromStr(x)>> : k \in Keys, x \in {"a", "b"}}

RECURSIVE SeqsUpTo(_, _)
SeqsUpTo(S, n) ==
    IF n = 0 THEN {<<>>}
    ELSE LET shorter == SeqsUpTo(S, n - 1)
         IN  shorter \cup {Append(q, x) : q \in shorter, x \in S}

\* Whether a pair with the key of position i stands later in kvs.
KeyRepeatsAfter(kvs, i) == \E j \in (i + 1)..Len(kvs) : kvs[j][1] = kvs[i][1]

\* The pairs of kvs without those whose key comes again later.
RECURSIVE LastPerKey(_, _)
LastPerKey(kvs, i) ==
    IF i > Len(kvs) THEN <<>>
    ELSE IF KeyRepeatsAfter(kvs, i) THEN LastPerKey(kvs, i + 1)
    ELSE <<kvs[i]>> \o LastPerKey(kvs, i + 1)

\* From<KeyValues> for DynamicDocument: Self(value)
DocumentFrom(kvs) == kvs

\* Deref / DerefMut: the vector inside the document
DocDeref(d) == d

\* The variant of the conversion that keeps one pair per key, as a map does.
ValueFromDocumentAsMap(d) == [variant |-> "Object", data |-> LastPerKey(d, 1)]

\* From<DynamicDocument> for Value: Self::Object(value.0)
ValueFromDocument(d) == [variant |-> "Object", data |-> d]

DocIdle ==
    /\ doc = <<>>
    /\ given = <<>>
    /\ phase = "new"
    /\ seen = <<>>
    /\ obj = Null

\* DynamicDocument::from(kvs)
DocFrom ==
    /\ phase = "new"
    /\ \E kvs \in SeqsUpTo(Pairs, MaxPairs - 1) :
        /\ doc' = DocumentFrom(kvs)
        /\ given' = kvs
    /\ phase' = "built"
    /\ UNCHANGED <<seen, obj, swVars, dtVars, valVars>>

\* doc.push(pair), through deref_mut
DocPush ==
    /\ phase = "built"
    /\ Len(doc) < MaxPairs
    /\ \E pair \in Pairs :
        /\ doc' = Append(DocDeref(doc), pair)
        /\ given' = Append(given, pair)
    /\ UNCHANGED <<phase, seen, obj, swVars, dtVars, valVars>>

\* doc.iter(), through deref: the pairs from first to last
DocIter ==
    /\ phase = "built"
    /\ seen' = [i \in 1..Len(DocDeref(doc)) |-> DocDeref(doc)[i]]
    /\ UNCHANGED <<doc, given, phase, obj, swVars, dtVars, valVars>>

\* Value::from(doc): the document is consumed
DocIntoValue ==
    /\ phase = "built"
    /\ obj' = ValueFromDocument(doc)
    /\ doc' = <<>>
    /\ phase' = "converted"
    /\ UNCHANGED <<given, seen, swVars, dtVars, valVars>>

-----------------------------------------------------------------------------
\* The stop-word state of a process in which no thread has called anything.
SwIdle ==
    /\ STOP_WORDS = Uninitialized
    /\ heap = [a \in Addrs |-> <<>>]
    /\ pc = [t \in Threads |-> "idle"]
    /\ loc = [t \in Threads |-> NoLocals]
    /\ result = [t \in Threads |-> NoResult]
    /\ writes = 0
    /\ full = <<>>

Init ==
    /\ payload \in Payloads
    /\ buffer \in Payloads
    /\ SwIdle
    /\ DtIdle
    /\ ValIdle
    /\ DocIdle

Next ==
    \E t \in Threads :
        \/ InitDecompress(t)
        \/ InitParse(t)
        \/ InitSplit(t)
        \/ InitPush(t)
        \/ InitSet(t)
        \/ Get(t)
        \/ Mutate(t)

Spec == Init /\ [][Next]_vars

-----------------------------------------------------------------------------
(* The value layer: each specification draws its inputs in its initial     *)
(* state and applies the operations to them.                               *)

InitDateTime ==
    /\ payload = <<>>
    /\ buffer = <<>>
    /\ SwIdle
    /\ dtIn \in DtInputs
    /\ dtOp = "none"
    /\ dtOut = NoneV
    /\ dtRead = NoneV
    /\ ValIdle
    /\ DocIdle

NextDateTime ==
    \/ DtFromSecs
    \/ DtFromMillis
    \/ DtFromMicros
    \/ DtAsMicros

SpecDateTime == InitDateTime /\ [][NextDateTime]_vars

InitValue ==
    /\ payload = <<>>
    /\ buffer = <<>>
    /\ SwIdle
    /\ DtIdle
    /\ \E i, j \in 1..Len(Values) :
        /\ valA = Values[i]
        /\ valB = Values[j]
    /\ tagA = Unset
    /\ tagB = Unset
    /\ DocIdle

NextValue ==
    \/ ClassifyA
    \/ ClassifyB

SpecValue == InitValue /\ [][NextValue]_vars

InitDocument ==
    /\ payload = <<>>
    /\ buffer = <<>>
    /\ SwIdle
    /\ DtIdle
    /\ ValIdle
    /\ DocIdle

NextDocument ==
    \/ DocFrom
    \/ DocPush
    \/ DocIter
    \/ DocIntoValue

SpecDocument == InitDocument /\ [][NextDocument]_vars

-----------------------------------------------------------------------------
(* Claims about the stop-word corpus *)

\* C1: once STOP_WORDS is initialized it stays initialized and no later step
\* stores into it again or changes its words; an init_stop_words that reaches
\* its end returns Ok(()) whether or not its set stored; after the
\* initialization no call returns an error; and every get_stop_words after
\* it returns the corpus' words.
C1_InitializedOnce ==
    [][/\ STOP_WORDS.init =>
            /\ STOP_WORDS' = STOP_WORDS
            /\ Corpus' = Corpus
            /\ writes' = writes
       /\ \A t \in Threads :
            /\ (pc[t] = "loop" /\ pc'[t] = "idle") => result'[t] = OkUnit
            /\ (STOP_WORDS.init /\ result'[t] # result[t]) =>
                    result'[t].kind \in {"ok", "words"}
            /\ (STOP_WORDS.init /\ Get(t)) =>
                    /\ result'[t].kind = "words"
                    /\ Held(t)' = Corpus]_vars

\* Two init_stop_words calls have returned Ok(()) and one set stored.
C1_Witness ==
    /\ STOP_WORDS.init
    /\ writes = 1
    /\ Cardinality({t \in Threads : result[t] = OkUnit}) >= 2

\* C2: under every interleaving at most one set stores, the cell is
\* initialized exactly when one did, the stored words are all the pieces the
\* storing call iterated over, and a get_stop_words returns either the
\* not-initialised error or a list equal to that complete sequence.
C2_OneWriteTakesEffect ==
    [][/\ writes' <= 1
       /\ STOP_WORDS'.init <=> writes' = 1
       /\ STOP_WORDS'.init => Corpus' = full'
       /\ \A t \in Threads :
            Get(t) =>
                \/ result'[t] = ErrNotInitialised /\ ~STOP_WORDS.init
                \/ result'[t].kind = "words" /\ Held(t)' = full']_vars

\* One thread has read the full corpus while another initializer, whose set
\* will store nothing, has built its vector and stands before set.
C2_Witness ==
    \E t, u \in Threads :
        /\ t # u
        /\ writes = 1
        /\ result[t].kind = "words" /\ Held(t) = full /\ full # <<>>
        /\ pc[u] = "loop" /\ LoopDone(loc[u])

\* C3: a get_stop_words that runs while STOP_WORDS is uninitialized returns
\* the not-initialised error (not a list) and leaves the cell uninitialized,
\* with nothing stored.
C3_GetBeforeInit ==
    [][\A t \in Threads :
        (Get(t) /\ ~STOP_WORDS.init) =>
            /\ result'[t] = ErrNotInitialised
            /\ STOP_WORDS' = Uninitialized
            /\ writes' = 0
            /\ Corpus' = Corpus]_vars

\* A thread got the error while another one was inside init_stop_words.
C3_Witness ==
    \E t, u \in Threads :
        /\ t # u
        /\ ~STOP_WORDS.init
        /\ result[t] = ErrNotInitialised
        /\ pc[u] = "loop"

\* C4: once initialized, the corpus is the text of the decompressed embedded
\* payload (when it decompresses to valid text) split on line breaks, in
\* order.
C4_CorpusIsPayloadLines ==
    LET d == Gunzip(payload)
        u == FromUtf8(d.data)
    IN  (STOP_WORDS.init /\ d.ok /\ u.ok) => Corpus = Split(u.text, NL)

\* C5: a get_stop_words after initialization returns a list equal to the
\* corpus, and a caller changing the list it holds changes neither the
\* corpus nor the list any other thread holds.
C5_IndependentCopies ==
    [][\A t \in Threads :
        /\ (Get(t) /\ STOP_WORDS.init) => Held(t)' = Corpus
        /\ Mutate(t) =>
            /\ STOP_WORDS' = STOP_WORDS
            /\ Corpus' = Corpus
            /\ \A u \in Threads \ {t} :
                result[u].kind = "words" =>
                    /\ result'[u] = result[u]
                    /\ Held(u)' = Held(u)]_vars

\* Two threads hold lists; one has changed its list, the other's list and
\* the corpus still have the published words.
C5_Witness ==
    \E t, u \in Threads :
        /\ t # u
        /\ STOP_WORDS.init
        /\ result[t].kind = "words" /\ Held(t) # Corpus
        /\ result[u].kind = "words" /\ Held(u) = Corpus

-----------------------------------------------------------------------------
(* Claims about DateTime *)

\* v * k lies within the integer range (computed without the product).
NoOverflow(v, k) == v <= IMax \div k /\ v >= -((-IMin) \div k)

MicrosPerSec == MillisPerSec * MicrosPerMilli

\* C6 as stated: whenever v * 1000 does not overflow, from_secs(v) is a
\* value and equals from_micros(v * 1_000_000).
C6_SecsDefinedWhenMillisFit ==
    (dtOp = "secs" /\ NoOverflow(dtIn, MillisPerSec)) =>
        /\ dtOut.some
        /\ dtOut = FromMicros(dtIn * MicrosPerSec)

\* C6 as amended: whenever v * 1_000_000 does not overflow, from_secs(v) is
\* a value and equals from_micros(v * 1_000_000).
C6_SecsDefinedWhenMicrosFit ==
    (dtOp = "secs" /\ NoOverflow(dtIn, MicrosPerSec)) =>
        /\ dtOut.some
        /\ dtOut = FromMicros(dtIn * MicrosPerSec)

\* from_secs ran on a non-zero number of seconds that fits and gave a value.
C6_Witness ==
    /\ dtOp = "secs"
    /\ dtIn # 0
    /\ NoOverflow(dtIn, MicrosPerSec)
    /\ dtOut.some

\* C7: from_millis(v) is None exactly when v * 1000 overflows, from_secs(v)
\* is None exactly when v * 1_000_000 overflows (so from_secs of the largest
\* integer is None), and a value that is returned holds the exact product.
C7_NoneExactlyOnOverflow ==
    /\ dtOp = "millis" =>
        /\ ~dtOut.some <=> ~NoOverflow(dtIn, MicrosPerMilli)
        /\ dtOut.some => dtOut.val.micros = dtIn * MicrosPerMilli
    /\ dtOp = "secs" =>
        /\ ~dtOut.some <=> ~NoOverflow(dtIn, MicrosPerSec)
        /\ dtOut.some => dtOut.val.micros = dtIn * MicrosPerSec
    /\ (dtOp = "secs" /\ dtIn = IMax) => ~dtOut.some

\* from_secs ran on the largest integer.
C7_Witness ==
    /\ dtOp = "secs"
    /\ dtIn = IMax
    /\ dtOut = NoneV

\* C8: from_micros(v) is a value for every v, the smallest and the largest
\* integer included, and as_micros() of it is v.
C8_MicrosRoundTrip ==
    dtOp = "micros" =>
        /\ dtOut.some
        /\ dtRead.some => dtRead.val = dtIn

\* as_micros() was read from from_micros of the smallest integer.
C8_Witness ==
    /\ dtOp = "micros"
    /\ dtIn = IMin
    /\ dtRead.some

-----------------------------------------------------------------------------
(* Claims about Value and DynamicDocument *)

\* C9: as_field_type gives every Value one of the twelve tags, the twelve
\* variants get twelve tags, two Values get the same tag exactly when they
\* are of the same variant whatever they hold, and Value::from(1u64) is
\* tagged U64 while Value::from(1i64) is tagged I64.
C9_FieldTypeByVariant ==
    /\ Cardinality(FieldTypes) = 12
    /\ Cardinality({Values[i].variant : i \in 1..Len(Values)}) = 12
    /\ tagA # Unset => tagA \in FieldTypes
    /\ tagB # Unset => tagB \in FieldTypes
    /\ (tagA # Unset /\ tagB # Unset) =>
            (tagA = tagB <=> valA.variant = valB.variant)
    /\ (tagA # Unset /\ valA.variant = "U64" /\ valA.data = 1) => tagA = "U64"
    /\ (tagB # Unset /\ valB.variant = "I64" /\ valB.data = 1) => tagB = "I64"

\* Value::from(1u64) and Value::from(1i64) have both been classified.
C9_Witness ==
    /\ valA.variant = "U64" /\ valA.data = 1
    /\ valB.variant = "I64" /\ valB.data = 1
    /\ tagA = "U64"
    /\ tagB = "I64"

\* C10: a document holds exactly the pairs it was given, in the order given,
\* equal keys included; iterating yields them, and converting the document
\* gives Value::Object of the same sequence.
C10_DocumentKeepsPairs ==
    [][/\ phase' = "built" => doc' = given'
       /\ DocIter => seen' = given
       /\ phase' = "converted" =>
            /\ obj'.variant = "Object"
            /\ obj'.data = given']_vars

\* A document given (tag, a), (tag, b) and, by push, more pairs, has been
\* read and converted.
C10_Witness ==
    /\ phase = "converted"
    /\ Len(given) = MaxPairs
    /\ given[1] = <<"tag", FromStr("a")>>
    /\ given[2] = <<"tag", FromStr("b")>>
    /\ seen = given
    /\ obj.data = given

-----------------------------------------------------------------------------
(* Claims about a failing init_stop_words *)

\* C11: an init_stop_words whose input does not decompress, or decompresses
\* to bytes that are not UTF-8, returns an error at that statement and
\* stores nothing: the cell, its words and the count of stores are as
\* before; while a call has returned such an error the cell is
\* uninitialized, a get_stop_words then returns the not-initialised error,
\* and a set on the cell would still store.
C11_FailedInitPublishesNothing ==
    [][\A t \in Threads :
        /\ (InitDecompress(t) /\ ~Gunzip(buffer).ok) =>
                /\ result'[t] = ErrIo
                /\ pc'[t] = "idle"
        /\ (InitParse(t) /\ ~ValidUtf8(loc[t].data, 1)) =>
                /\ result'[t] = ErrParse
                /\ pc'[t] = "idle"
        /\ (result'[t] \in {ErrIo, ErrParse} /\ result'[t] # result[t]) =>
                /\ STOP_WORDS' = STOP_WORDS
                /\ Corpus' = Corpus
                /\ writes' = writes
                /\ full' = full
        /\ result'[t] \in {ErrIo, ErrParse} =>
                /\ STOP_WORDS' = Uninitialized
                /\ writes' = 0
                /\ GetStopWords(STOP_WORDS', heap', t).ret = ErrNotInitialised
                /\ OnceCellSet(STOP_WORDS', heap', <<>>).stored]_vars

\* One thread's init_stop_words failed on text that is not UTF-8 and another
\* thread's get_stop_words returned the not-initialised error.
C11_Witness ==
    \E t, u \in Threads :
        /\ t # u
        /\ result[t] = ErrParse
        /\ result[u] = ErrNotInitialised
        /\ STOP_WORDS = Uninitialized
        /\ writes = 0

====
